---- MODULE Spec2Model ----
(***************************************************************************)
(* Model of example/daubechies_wavelets/find_best_daubechies_interpolator  *)
(* .cpp: main() calls find_best_interpolator<float128, float128, p> for    *)
(* p = 2..15; each call writes one CSV file and, for every resolution r,   *)
(* evaluates up to thirteen interpolation schemes against a dense          *)
(* reference grid, records the sup error of each and prints the best.      *)
(*                                                                         *)
(* Numbers.  Every abscissa of the program is a dyadic rational, so a Real *)
(* is modelled exactly as [m, e], meaning m * 2^-e.  Function values (the  *)
(* reference grid and the interpolants) come from the numerical library    *)
(* and are inputs of the model: small integers drawn from Vals.            *)
(*                                                                         *)
(* Vectors.  A std::vector is modelled by its size and by what it holds    *)
(* ("of"); the dense reference grid has (2p-1)*2^17+1 entries, so loops    *)
(* over it are followed on the indices of DenseSample only.                *)
(***************************************************************************)
EXTENDS Integers, Sequences, FiniteSets, TLC

VARIABLES pc, ci, p, r, blk, opened, fs, log, m, best, phi_dense, phi,
          phi_prime, x, ev, fam

vars == <<pc, ci, p, r, blk, opened, fs, log, m, best, phi_dense, phi,
          phi_prime, x, ev, fam>>

(***************************************************************************)
(* Bounds of the model                                                     *)
(***************************************************************************)
\* function values and errors are drawn from 0..MaxVal
MaxVal == 1
\* the loops over phi_dense are followed on its first and last DenseEdge indices
DenseEdge == 2

Vals == 0..MaxVal

(***************************************************************************)
(* Program constants                                                       *)
(***************************************************************************)
rmax == 17
best_sup_init == 1000000000
\* main with one call repeated in place of the next
MainP_Repeated == <<2, 3, 4, 4, 6, 7, 8, 9, 10, 11, 12, 13, 14, 15>>

\* the template arguments p of main's calls, in call order
MainP == <<2, 3, 4, 5, 6, 7, 8, 9, 10, 11, 12, 13, 14, 15>>

RECURSIVE Pow2Rec(_)
Pow2Rec(n) == IF n <= 0 THEN 1 ELSE 2 * Pow2Rec(n - 1)

\* the powers of two an int holds, computed once
Pow2Table == [n \in 0..30 |-> Pow2Rec(n)]

\* 1 << n
Pow2(n) == Pow2Table[n]

Abs(a) == IF a < 0 THEN -a ELSE a

Max2(a, b) == IF a > b THEN a ELSE b

(***************************************************************************)
(* Dyadic reals: [m |-> mantissa, e |-> exponent] is m * 2^-e, e >= 0      *)
(***************************************************************************)
Dy(mm, ee) == [m |-> mm, e |-> ee]

\* integer * Real
DyScale(n, a) == Dy(n * a.m, a.e)

\* (1 << k) * Real: a power of two only moves the exponent
DyShiftLeft(k, a) == IF a.e >= k THEN Dy(a.m, a.e - k) ELSE Dy(a.m * Pow2(k - a.e), 0)

\* std::floor
DyFloor(a) == a.m \div Pow2(a.e)

\* Real <= 0, Real >= integer
DyLeqZero(a) == a.m <= 0
DyGeqInt(a, n) == a.m >= n * Pow2(a.e)

\* Real = integer
DyEqInt(a, n) == a.m = n * Pow2(a.e)

\* a - k for an integer k, in units of 2^-a.e
DyFracUnits(a, k) == a.m - k * Pow2(a.e)

\* the exponent of each power of two
Log2Table == [v \in {Pow2Table[i] : i \in 0..30} |-> CHOOSE i \in 0..30 : Pow2Table[i] = v]

\* n / d for integers n, d with d = n * 2^j: the quotient is 2^-j, exactly
DyQuot(n, d) == IF d % n = 0 THEN Dy(1, Log2Table[d \div n]) ELSE Dy((n * Pow2(rmax)) \div d, rmax)

(***************************************************************************)
(* Grids and vectors                                                       *)
(***************************************************************************)
\* number of points of boost::math::detail::dyadic_grid<Real, p, order>(j)
dyadic_grid_size(pp, j) == (2 * pp - 1) * Pow2(j) + 1

\* the vector dyadic_grid<Real, p, order>(j) returns
dyadic_grid(pp, order, j) ==
    [size |-> dyadic_grid_size(pp, j), of |-> <<"dyadic_grid", pp, order, j>>]

\* a moved-from (or default-constructed) vector
EmptyVec == [size |-> 0, of |-> <<"empty">>]

\* the loops over phi_dense are followed on its first and last DenseEdge
\* indices: the number of those, and the k-th of them in increasing order
SampleCount(n) == IF n <= 2 * DenseEdge THEN n ELSE 2 * DenseEdge

SampleAt(n, k) ==
    IF n <= 2 * DenseEdge \/ k <= DenseEdge THEN k - 1 ELSE n - 2 * DenseEdge + (k - 1)

\* the indices of phi_dense on which the loops are followed
DenseSample(n) == {SampleAt(n, k) : k \in 1..SampleCount(n)}

\* Real dx_dense = (2*p-1)/static_cast<Real>(phi_dense.size()-1)
dx_dense(pp, n) == DyQuot(2 * pp - 1, n - 1)

\* dx taken over the number of points instead of the number of intervals
dx_OverSize(pp, n) == DyQuot(2 * pp - 1, n)

\* Real dx = (2*p-1)/static_cast<Real>(x.size()-1)
dx(pp, n) == DyQuot(2 * pp - 1, n - 1)

(***************************************************************************)
(* The schemes, in the order of their blocks in the loop body              *)
(***************************************************************************)
\* CSV column of each block
Column == <<"matched_holder", "linear", "quadratic_b_spline", "cubic_b_spline",
            "quintic_b_spline", "cubic_hermite", "pchip", "makima", "fo_taylor",
            "quintic_hermite", "second_order_taylor", "third_order_taylor",
            "septic_hermite">>

\* the name each block inserts in the map m
MapName == <<"matched_holder", "linear interpolation", "quadratic_b_spline",
             "cubic_b_spline", "quintic_b_spline", "cubic_hermite_spline", "pchip",
             "makima", "First-order Taylor", "quintic_hermite_spline",
             "Second-order Taylor", "Third-order Taylor", "septic_hermite_spline">>

\* blocks 10, 11 are under if constexpr (p > 2), blocks 12, 13 under (p > 3)
NumBlocks(pp) == IF pp > 3 THEN 13 ELSE IF pp > 2 THEN 11 ELSE 9

\* the hand-written approximants (lambdas); the others are library interpolators
HandWritten == {2, 9, 11, 12}

\* the second-order Taylor error never ends the row
Terminator_NoNewlineAt11(b, pp) ==
    CASE b = 9 -> IF pp = 2 THEN "nl" ELSE "sep"
      [] b = 13 -> "nl"
      [] OTHER -> "sep"

\* what is written to fs after the error of block b
Terminator(b, pp) ==
    CASE b = 9 -> IF pp = 2 THEN "nl" ELSE "sep"
      [] b = 11 -> IF pp > 3 THEN "sep" ELSE "nl"
      [] b = 13 -> "nl"
      [] OTHER -> "sep"

(***************************************************************************)
(* The CSV stream: a sequence of tokens.  "col" is a column title, "num" a *)
(* number (of: the column it was computed for), "sep" is ", ", "nl" "\n".  *)
(***************************************************************************)
Tok(t, of, v) == [t |-> t, of |-> of, v |-> v]
Sep == Tok("sep", "", 0)
Nl == Tok("nl", "", 0)

RECURSIVE Titles(_, _)
\* "a, b, c" as tokens: the titles cols[k..], separated by ", "
Titles(cols, k) ==
    IF k > Len(cols) THEN <<>>
    ELSE IF k = Len(cols) THEN <<Tok("col", cols[k], 0)>>
    ELSE <<Tok("col", cols[k], 0), Sep>> \o Titles(cols, k + 1)

\* the header fs receives
Header(pp) ==
    Titles(<<"r", "matched_holder", "linear", "quadratic_b_spline", "cubic_b_spline",
             "quintic_b_spline", "cubic_hermite", "pchip", "makima", "fo_taylor">>, 1) \o
    (IF pp = 2 THEN <<Nl>>
     ELSE <<Sep>> \o Titles(<<"quintic_hermite", "second_order_taylor">>, 1) \o
          (IF pp > 3
           THEN <<Sep>> \o Titles(<<"third_order_taylor", "septic_hermite">>, 1) \o <<Nl>>
           ELSE <<Nl>>))

(***************************************************************************)
(* Evaluation of one scheme against the reference                          *)
(***************************************************************************)
\* the guard with x > 2*p-1 for x >= 2*p-1
OutsideSupport_Strict(xx, pp) ==
    DyLeqZero(xx) \/ (DyGeqInt(xx, 2 * pp - 1) /\ ~DyEqInt(xx, 2 * pp - 1))

\* the guard of the lambdas: x <= 0 || x >= 2*p-1
OutsideSupport(xx, pp) == DyLeqZero(xx) \/ DyGeqInt(xx, 2 * pp - 1)

\* Real y = (1<<r)*x; Real k = floor(y); size_t kk = static_cast<size_t>(k)
NodeBelow(xx, rr) == DyFloor(DyShiftLeft(rr, xx))

\* the test of the Taylor lambdas: y - k < k + 1 - y
NearLower(xx, rr) ==
    LET y == DyShiftLeft(rr, xx)
        k == DyFloor(y)
    IN  2 * DyFracUnits(y, k) < Pow2(y.e)

\* Real eps = (y-k)/(1<<r) in the first branch of the Taylor lambdas and
\* (y-k-1)/(1<<r) in the other
TaylorEps(xx, rr) ==
    LET y == DyShiftLeft(rr, xx)
        k == DyFloor(y)
    IN  IF NearLower(xx, rr) THEN Dy(DyFracUnits(y, k), y.e + rr)
        ELSE Dy(DyFracUnits(y, k + 1), y.e + rr)

\* the array elements one call of the lambda of block b reads, as <<array, index>>
LambdaReads(b, xx, pp, rr) ==
    LET kk == NodeBelow(xx, rr)
        lo == NearLower(xx, rr)
    IN  IF OutsideSupport(xx, pp) THEN {}
        ELSE CASE b = 2 -> {<<"phi", kk>>, <<"phi", kk + 1>>}
               [] b = 9 -> IF lo THEN {<<"phi", kk>>, <<"phi_prime", kk>>}
                           ELSE {<<"phi", kk + 1>>, <<"phi_prime", kk + 1>>}
               [] b = 11 -> IF lo
                            THEN {<<"phi", kk>>, <<"phi_prime", kk>>, <<"phi_dbl_prime", kk>>}
                            ELSE {<<"phi", kk + 1>>, <<"phi_prime", kk + 1>>,
                                  <<"phi_dbl_prime", kk + 1>>}
               [] b = 12 -> IF lo
                            THEN {<<"phi", kk>>, <<"phi_prime", kk>>, <<"phi_dbl_prime", kk>>,
                                  <<"phi_triple_prime", kk>>}
                            ELSE {<<"phi", kk + 1>>, <<"phi_prime", kk + 1>>,
                                  <<"phi_dbl_prime", kk + 1>>, <<"phi_triple_prime", kk>>}
               [] OTHER -> {}

\* every loop runs over all of phi_dense
LoopBound_All(b, n) == n

\* the loop bound of block b over phi_dense: the matched_holder loop stops one short
LoopBound(b, n) == IF b = 1 THEN n - 1 ELSE n

\* the indices at which block b calls its scheme
CallIndices(b, n) == {i \in DenseSample(n) : i < LoopBound(b, n)}

\* the value the scheme of block b returns at x = i*dx_dense; f is the value of
\* its interpolation formula there
SchemeValue(b, f, i, pp, n) ==
    IF b \in HandWritten /\ OutsideSupport(DyScale(i, dx_dense(pp, n)), pp) THEN 0 ELSE f[i]

\* Real diff = abs(phi_dense[i] - scheme(x))
Diff(b, f, dense, i, pp) == Abs(dense.at[i] - SchemeValue(b, f, i, pp, dense.size))

\* the running sup overwritten by every diff
SupStep_Overwrite(sup, diff) == diff

\* if (diff > sup) { sup = diff; }
SupStep(sup, diff) == IF diff > sup THEN diff ELSE sup

\* for (size_t i = 0; i < bound; ++i) {...} on the sample: run[k, sup] is the
\* sup the loop ends with when i reaches the k-th sample index with the running sup
SupLoop(b, f, dense, pp) ==
    LET n == dense.size
        run[k \in 1..(SampleCount(n) + 1), sup \in Vals] ==
            IF k > SampleCount(n) \/ ~(SampleAt(n, k) < LoopBound(b, n)) THEN sup
            ELSE run[k + 1, SupStep(sup, Diff(b, f, dense, SampleAt(n, k), pp))]
    IN  run[1, 0]

\* Real sup = 0; for (...) {...}
SupError(b, f, dense, pp) == SupLoop(b, f, dense, pp)

(***************************************************************************)
(* Ownership of the sample data within one block                           *)
(***************************************************************************)
\* the block-local copies block b makes (auto phi_copy = phi; ...)
Copies(b) ==
    CASE b \in {1, 6} -> {"phi_copy", "phi_prime_copy"}
      [] b = 7 -> {"phi_copy", "x_copy", "phi_prime_copy"}
      [] b = 8 -> {"phi_copy", "x_copy"}
      [] b = 10 -> {"phi_copy", "phi_prime_copy", "phi_dbl_prime_copy"}
      [] b = 13 -> {"phi_copy", "phi_prime_copy", "phi_dbl_prime_copy",
                    "phi_triple_prime_copy"}
      [] OTHER -> {}

\* the blocks that move their vectors move the originals, not the copies
MovedLocals_Originals(b) ==
    CASE b \in {1, 6} -> {"phi", "phi_prime"}
      [] b \in {7, 8} -> {"x", "phi"}
      [] b = 10 -> {"phi", "phi_prime", "phi_dbl_prime"}
      [] b = 13 -> {"phi", "phi_prime", "phi_dbl_prime", "phi_triple_prime"}
      [] OTHER -> {}

\* the vectors block b hands over with std::move
MovedLocals(b) ==
    CASE b \in {1, 6} -> {"phi_copy", "phi_prime_copy"}
      [] b \in {7, 8} -> {"x_copy", "phi_copy"}
      [] b = 10 -> {"phi_copy", "phi_prime_copy", "phi_dbl_prime_copy"}
      [] b = 13 -> {"phi_copy", "phi_prime_copy", "phi_dbl_prime_copy",
                    "phi_triple_prime_copy"}
      [] OTHER -> {}

\* the vectors the scheme of block b is built from or reads
Uses(b) ==
    CASE b \in {1, 6} -> {"phi_copy", "phi_prime_copy"}
      [] b \in {2, 5} -> {"phi"}
      [] b \in {3, 4, 9} -> {"phi", "phi_prime"}
      [] b \in {7, 8} -> {"x_copy", "phi_copy"}
      [] b = 10 -> {"phi_copy", "phi_prime_copy", "phi_dbl_prime_copy"}
      [] b = 11 -> {"phi", "phi_prime", "phi_dbl_prime"}
      [] b = 12 -> {"phi", "phi_prime", "phi_dbl_prime", "phi_triple_prime"}
      [] b = 13 -> {"phi_copy", "phi_prime_copy", "phi_dbl_prime_copy",
                    "phi_triple_prime_copy"}

\* the vector a copy is taken from
CopiedFrom(n) ==
    CASE n = "phi_copy" -> "phi"
      [] n = "phi_prime_copy" -> "phi_prime"
      [] n = "x_copy" -> "x"
      [] n = "phi_dbl_prime_copy" -> "phi_dbl_prime"
      [] n = "phi_triple_prime_copy" -> "phi_triple_prime"
      [] OTHER -> n

\* the vectors alive in block b once its copies are made
Locals(b, vphi, vphi_prime, vx, pp, rr) ==
    LET own == [n \in {"phi", "phi_prime", "x", "phi_dbl_prime", "phi_triple_prime"} |->
                  CASE n = "phi" -> vphi
                    [] n = "phi_prime" -> vphi_prime
                    [] n = "x" -> vx
                    [] n = "phi_dbl_prime" -> dyadic_grid(pp, 2, rr)
                    [] n = "phi_triple_prime" -> dyadic_grid(pp, 3, rr)]
    IN  [n \in DOMAIN own \cup Copies(b) |-> own[CopiedFrom(n)]]

\* the same vectors once the scheme is constructed: a moved vector is left empty
AfterMoves(b, locals) ==
    [n \in DOMAIN locals |-> IF n \in MovedLocals(b) THEN EmptyVec ELSE locals[n]]

(***************************************************************************)
(* std::map<Real, std::string> m and the report                            *)
(***************************************************************************)
EmptyMap == <<>>

\* m.insert({key, name}): an existing key keeps its entry
MapInsert(mm, key, name) ==
    IF key \in DOMAIN mm THEN mm
    ELSE [k \in DOMAIN mm \cup {key} |-> IF k = key THEN name ELSE mm[k]]

Line(t, v, of) == [t |-> t, v |-> v, of |-> of]

RECURSIVE ErrorLines(_, _)
\* the "<error> is error of <name>" lines, in the map's (increasing key) order
ErrorLines(mm, todo) ==
    IF todo = {} THEN <<>>
    ELSE LET k == CHOOSE j \in todo : \A i \in todo : j <= i
         IN  <<Line("err", k, mm[k])>> \o ErrorLines(mm, todo \ {k})

\* the best overwritten by every entry
BestStep_Overwrite(acc, key, name) == [best |-> name, best_sup |-> key]

\* if (e.first < best_sup) { best = e.second; best_sup = e.first; }
BestStep(acc, key, name) ==
    IF key < acc.best_sup THEN [best |-> name, best_sup |-> key] ELSE acc

RECURSIVE BestLoop(_, _, _)
\* for (auto & e : m) {...}
BestLoop(mm, todo, acc) ==
    IF todo = {} THEN acc
    ELSE LET k == CHOOSE j \in todo : \A i \in todo : j <= i
         IN  BestLoop(mm, todo \ {k}, BestStep(acc, k, mm[k]))

\* std::string best = "none"; Real best_sup = 1000000000; the loop
BestOf(mm) == BestLoop(mm, DOMAIN mm, [best |-> "none", best_sup |-> best_sup_init]).best

(***************************************************************************)
(* The values the numerical library supplies                               *)
(***************************************************************************)
\* the values of the reference grid on the sample
DenseFam(n) ==
    IF fam.dense = "flat" THEN {[i \in DenseSample(n) |-> c] : c \in Vals}
    ELSE {[i \in DenseSample(n) |-> 0]}

\* the values of the interpolation formula of block b on the sample
InterpFam(b, n) ==
    CASE fam.interp[b] = "any" -> [DenseSample(n) -> Vals]
      [] fam.interp[b] = "flat" -> {[i \in DenseSample(n) |-> c] : c \in Vals}
      [] OTHER -> {[i \in DenseSample(n) |-> 0]}

(***************************************************************************)
(* State                                                                   *)
(***************************************************************************)
NoDense == [size |-> 0, of |-> <<"empty">>, at |-> <<>>]
NoEval == [b |-> 0, f |-> <<>>, calls |-> {}, reads |-> {}, given |-> <<>>, sup |-> 0]

\* "daubechies_" + std::to_string(p) + "_scaling_convergence.csv"
FileName(pp) == <<"daubechies_", pp, "_scaling_convergence.csv">>

ZeroFam == [dense |-> "zero", interp |-> [b \in 1..13 |-> "zero"]]

\* the loop running on to r = rmax-1
LoopTest_OneMore(rr) == rr < rmax

\* for (int r = 2; r < rmax-1; ++r): the test
LoopTest(rr) == rr < rmax - 1

\* the start of main
Init ==
    /\ pc = "main" /\ ci = 1 /\ p = 0 /\ r = 0 /\ blk = 0
    /\ opened = <<>> /\ fs = <<>> /\ log = <<>>
    /\ m = EmptyMap /\ best = ""
    /\ phi_dense = NoDense /\ phi = EmptyVec /\ phi_prime = EmptyVec /\ x = EmptyVec
    /\ ev = NoEval
    /\ fam = ZeroFam

\* main calls find_best_interpolator<float128, float128, MainP[ci]>(); the call
\* opens its file
MainCall ==
    /\ pc = "main" /\ ci <= Len(MainP)
    /\ p' = MainP[ci]
    /\ opened' = Append(opened, FileName(MainP[ci]))
    /\ fs' = <<>>
    /\ log' = <<>>
    /\ pc' = "entry"
    /\ UNCHANGED <<ci, r, blk, m, best, phi_dense, phi, phi_prime, x, ev, fam>>

\* the reference grid, the header and the loop initialisation
Entry ==
    /\ pc = "entry"
    /\ \E d \in DenseFam(dyadic_grid_size(p, rmax)) :
          phi_dense' = [size |-> dyadic_grid_size(p, rmax),
                        of |-> <<"dyadic_grid", p, 0, rmax>>, at |-> d]
    /\ log' = log \o <<Line("text", 0, "Computing phi_dense_precise"), Line("text", 0, "Done")>>
    /\ fs' = fs \o Header(p)
    /\ r' = 2
    /\ pc' = "loop"
    /\ UNCHANGED <<ci, p, blk, opened, m, best, phi, phi_prime, x, ev, fam>>

\* the loop test r < rmax-1 and the head of the body: the row's r, the sample
\* grids and the abscissas
LoopEnter ==
    /\ pc = "loop" /\ LoopTest(r)
    /\ fs' = fs \o <<Tok("num", "r", r), Sep>>
    /\ m' = EmptyMap
    /\ phi' = dyadic_grid(p, 0, r)
    /\ phi_prime' = dyadic_grid(p, 1, r)
    /\ x' = [size |-> dyadic_grid_size(p, r), of |-> <<"abscissas", p, r>>]
    /\ log' = Append(log, Line("dx", r, ""))
    /\ blk' = 1
    /\ ev' = NoEval
    /\ pc' = "block"
    /\ UNCHANGED <<ci, p, r, opened, best, phi_dense, fam>>

\* one block of the body: build the scheme, take the sup over the reference,
\* insert it in m and write it to fs
Eval(b) ==
    /\ pc = "block" /\ blk = b /\ b <= NumBlocks(p)
    /\ \E f \in InterpFam(b, phi_dense.size) :
          LET locals == Locals(b, phi, phi_prime, x, p, r)
              after == AfterMoves(b, locals)
              sup == SupError(b, f, phi_dense, p)
              calls == CallIndices(b, phi_dense.size)
          IN  /\ m' = MapInsert(m, sup, MapName[b])
              /\ fs' = fs \o <<Tok("num", Column[b], sup),
                               IF Terminator(b, p) = "nl" THEN Nl ELSE Sep>>
              /\ phi' = after["phi"]
              /\ phi_prime' = after["phi_prime"]
              /\ x' = after["x"]
              /\ ev' = [b |-> b, f |-> f, calls |-> calls,
                        reads |-> UNION {LambdaReads(b, DyScale(i, dx_dense(p, phi_dense.size)), p, r) :
                                           i \in calls},
                        given |-> [n \in Uses(b) |-> locals[n]],
                        sup |-> sup]
    /\ IF b < NumBlocks(p) THEN blk' = b + 1 /\ pc' = "block"
       ELSE blk' = 0 /\ pc' = "report"
    /\ UNCHANGED <<ci, p, r, opened, log, best, phi_dense, fam>>

\* the report on std::cout
Report ==
    /\ pc = "report"
    /\ best' = BestOf(m)
    /\ log' = log \o ErrorLines(m, DOMAIN m) \o <<Line("best", p, BestOf(m))>>
    /\ pc' = "end"
    /\ UNCHANGED <<ci, p, r, blk, opened, fs, m, phi_dense, phi, phi_prime, x, ev, fam>>

\* the end of the body: its locals are destroyed, ++r
LoopBack ==
    /\ pc = "end"
    /\ r' = r + 1
    /\ m' = EmptyMap /\ best' = ""
    /\ phi' = EmptyVec /\ phi_prime' = EmptyVec /\ x' = EmptyVec
    /\ ev' = NoEval
    /\ pc' = "loop"
    /\ UNCHANGED <<ci, p, blk, opened, fs, log, phi_dense, fam>>

\* the loop test fails: the call returns and its file is closed
Return ==
    /\ pc = "loop" /\ ~LoopTest(r)
    /\ phi_dense' = NoDense
    /\ ci' = ci + 1
    /\ pc' = "main"
    /\ UNCHANGED <<p, r, blk, opened, fs, log, m, best, phi, phi_prime, x, ev, fam>>

\* main returns
MainExit ==
    /\ pc = "main" /\ ci > Len(MainP)
    /\ pc' = "done"
    /\ UNCHANGED <<ci, p, r, blk, opened, fs, log, m, best, phi_dense, phi, phi_prime, x, ev, fam>>

Next ==
    \/ MainCall
    \/ Entry
    \/ LoopEnter
    \/ \E b \in 1..13 : Eval(b)
    \/ Report
    \/ LoopBack
    \/ Return
    \/ MainExit

\* the whole program
Spec == Init /\ [][Next]_vars

\* the whole program, which keeps running until main returns
SpecLive == Init /\ [][Next]_vars /\ WF_vars(Next)

(***************************************************************************)
(* One call, from its entry through its first iteration, for any p of      *)
(* main's calls and with the library's values left open                    *)
(***************************************************************************)
\* the state main's ci-th call starts in
InitCall(c, f) ==
    /\ pc = "entry" /\ ci = c /\ p = MainP[c] /\ r = 0 /\ blk = 0
    /\ opened = [k \in 1..c |-> FileName(MainP[k])]
    /\ fs = <<>> /\ log = <<>>
    /\ m = EmptyMap /\ best = ""
    /\ phi_dense = NoDense /\ phi = EmptyVec /\ phi_prime = EmptyVec /\ x = EmptyVec
    /\ ev = NoEval
    /\ fam = f

\* every scheme has some error in Vals: a zero reference, flat interpolants
FlatFam == [dense |-> "zero", interp |-> [b \in 1..13 |-> "flat"]]

\* any level of the reference, and any values of the interpolant of block b0 on
\* the sample; the other interpolants are zero
FocusFam(b0) == [dense |-> "flat", interp |-> [b \in 1..13 |-> IF b = b0 THEN "any" ELSE "zero"]]

InitBest == \E c \in 1..Len(MainP) : InitCall(c, FlatFam)

InitEval == \E c \in 1..Len(MainP) : \E b0 \in 1..13 : InitCall(c, FocusFam(b0))

NextIter ==
    \/ Entry
    \/ LoopEnter
    \/ \E b \in 1..13 : Eval(b)
    \/ Report

\* the first iteration of a call, any errors
SpecBest == InitBest /\ [][NextIter]_vars

\* the first iteration of a call, any values of the reference and of one scheme
SpecEval == InitEval /\ [][NextIter]_vars

(***************************************************************************)
(* Reading the CSV stream and the console back                             *)
(***************************************************************************)
RECURSIVE SortedSeq(_)
\* the elements of a finite set of integers, in increasing order
SortedSeq(S) ==
    IF S = {} THEN <<>>
    ELSE LET a == CHOOSE j \in S : \A i \in S : j <= i IN <<a>> \o SortedSeq(S \ {a})

\* the complete (newline-terminated) lines of stream s, without their newline
LinesOf(s) ==
    LET nl == SortedSeq({k \in 1..Len(s) : s[k].t = "nl"})
    IN  [j \in 1..Len(nl) |-> SubSeq(s, IF j = 1 THEN 1 ELSE nl[j - 1] + 1, nl[j] - 1)]

\* the tokens of stream s after its last newline
TailOf(s) ==
    LET nl == {k \in 1..Len(s) : s[k].t = "nl"}
    IN  SubSeq(s, IF nl = {} THEN 1 ELSE (CHOOSE k \in nl : \A i \in nl : i <= k) + 1, Len(s))

\* a line is fields separated by single ", ", with no field missing
WellFormedLine(l) ==
    /\ Len(l) % 2 = 1
    /\ \A k \in 1..Len(l) :
          IF k % 2 = 1 THEN l[k].t \in {"col", "num"} ELSE l[k].t = "sep"

\* the k-th field of a well-formed line, and their number
Field(l, k) == l[2 * k - 1]
NumFields(l) == (Len(l) + 1) \div 2

\* the call is inside its loop over r, or has left it
InLoop == pc \in {"loop", "block", "report", "end"}
InBody == pc \in {"block", "report", "end"}

\* C3: every data row of the CSV has exactly as many comma-separated fields as
\* the header row of its p (10 for p = 2, 12 for p = 3, 14 for p >= 4), in the
\* header's column order (r first, then one error per titled scheme), and is
\* ended by exactly one newline written after its last field.
C3_RowsMatchHeader ==
    LET lines == LinesOf(fs)
        n == IF p = 2 THEN 10 ELSE IF p = 3 THEN 12 ELSE 14
    IN  (Len(lines) >= 1) =>
            /\ WellFormedLine(lines[1])
            /\ NumFields(lines[1]) = n
            /\ \A j \in 2..Len(lines) :
                  /\ WellFormedLine(lines[j])
                  /\ NumFields(lines[j]) = n
                  /\ \A k \in 1..n :
                        /\ Field(lines[j], k).t = "num"
                        /\ Field(lines[1], k).t = "col"
                        /\ Field(lines[j], k).of = Field(lines[1], k).of
            /\ (pc \in {"loop", "main", "done"} => TailOf(fs) = <<>>)

\* C3 witness: a call with p = 3 has returned with data rows in its file
C3_Witness == pc = "main" /\ p = 3 /\ Len(LinesOf(fs)) = 15

\* C5: within one call the header is written before any data row, then exactly
\* one data row for each r = 2..15 in increasing order, each starting with its
\* r; the loop ends after the row of r = 15.
C5_OneRowPerR ==
    LET lines == LinesOf(fs)
        open == TailOf(fs)
        rows == IF pc \in {"report", "end"} THEN r - 1 ELSE r - 2
    IN  InLoop \/ (pc \in {"main", "done"} /\ ci > 1) =>
            /\ (InBody => r \in 2..15)
            /\ Len(lines) = rows + 1
            /\ lines[1] = SubSeq(Header(p), 1, Len(Header(p)) - 1)
            /\ \A j \in 2..Len(lines) : lines[j][1] = Tok("num", "r", j)
            /\ (pc = "block" <=> open # <<>>)
            /\ (open # <<>> => open[1] = Tok("num", "r", r))
            /\ (pc \in {"main", "done"} => rows = 14 /\ r = 16)

\* C5 witness: a call has returned with all its rows written
C5_Witness == pc = "main" /\ ci > 1 /\ Len(LinesOf(fs)) = 15 /\ LinesOf(fs)[15][1].v = 15

\* C4 (safety part): the calls are made for p = 2, 3, ..., 15 in this order, one
\* at a time, and the k-th call opens daubechies_<k+1>_scaling_convergence.csv,
\* a file no other call opens.
C4_Sequential ==
    /\ \A k \in 1..Len(opened) : opened[k] = FileName(k + 1)
    /\ \A j, k \in 1..Len(opened) : opened[j] = opened[k] => j = k
    /\ Len(opened) = (IF pc \in {"main", "done"} THEN ci - 1 ELSE ci)
    /\ (pc \notin {"main", "done"} => p = ci + 1 /\ p \in 2..15)
    /\ (pc = "done" => Len(opened) = 14)

\* C4: one run of main performs the sweep exactly once: find_best_interpolator
\* runs once for each p = 2..15, in increasing order, one run finishing before
\* the next starts, each writing its own file; the program then terminates.
C4_SweepOnce == [](C4_Sequential) /\ <>(pc = "done")

\* C4 witness: main has returned after its fourteen calls
C4_Witness == pc = "done" /\ Len(opened) = 14 /\ opened[14] = FileName(15)

\* two dyadic reals are the same number
DySame(a, b) ==
    LET e == Max2(a.e, b.e) IN a.m * Pow2(e - a.e) = b.m * Pow2(e - b.e)

\* C7: for every r of the sweep (2 <= r <= 15) the reference grid (built at
\* rmax = 17) is strictly finer than the sample grid: dx is 2^(17-r) >= 4 times
\* dx_dense, every sample node k*dx is the reference point of index
\* k*2^(17-r), and both grids share the endpoints 0 and 2p-1.
C7_GridsNested ==
    InBody =>
        LET d == dx_dense(p, phi_dense.size)
            h == dx(p, x.size)
            ratio == Pow2(rmax - r)
        IN  /\ r \in 2..15
            /\ phi_dense.size > phi.size /\ x.size = phi.size
            /\ ratio >= 4
            /\ DySame(h, DyScale(ratio, d))
            /\ \A k \in DenseSample(x.size) :
                  /\ k * ratio <= phi_dense.size - 1
                  /\ DySame(DyScale(k, h), DyScale(k * ratio, d))
            /\ DyEqInt(DyScale(0, h), 0) /\ DyEqInt(DyScale(0, d), 0)
            /\ DyEqInt(DyScale(x.size - 1, h), 2 * p - 1)
            /\ DyEqInt(DyScale(phi_dense.size - 1, d), 2 * p - 1)

\* C7 witness: the last iteration (r = 15) of the last call (p = 15)
C7_Witness == InBody /\ p = 15 /\ r = 15 /\ dx(p, x.size) = Dy(1, 15)

\* C9: matched_holder is evaluated at every reference index i with
\* 0 <= i < phi_dense.size()-1 and never at the last reference point
\* (x = 2p-1); every other scheme is evaluated at all reference indices, the
\* last included.
C9_MatchedHolderStopsShort ==
    InBody /\ ev.b >= 1 =>
        LET n == phi_dense.size
        IN  /\ DyEqInt(DyScale(n - 1, dx_dense(p, n)), 2 * p - 1)
            /\ (ev.b = 1 => ev.calls = DenseSample(n) \ {n - 1})
            /\ (ev.b # 1 => ev.calls = DenseSample(n) /\ (n - 1) \in ev.calls)

\* C9 witness: matched_holder has been evaluated, at the index before the last
C9_Witness == pc = "block" /\ ev.b = 1 /\ (phi_dense.size - 2) \in ev.calls

\* C10: in the hand-written linear and first-, second- and third-order Taylor
\* approximants every array access is in bounds: at every reference abscissa
\* x = i*dx_dense either x <= 0 or x >= 2p-1 and no array is read, or
\* kk = floor(2^r * x) has 0 <= kk and kk+1 <= phi.size()-1.
C10_LambdaReadsInBounds ==
    InBody /\ ev.b \in HandWritten =>
        /\ \A i \in ev.calls :
              LET xx == DyScale(i, dx_dense(p, phi_dense.size))
                  kk == NodeBelow(xx, r)
              IN  \/ /\ (DyLeqZero(xx) \/ DyGeqInt(xx, 2 * p - 1))
                     /\ LambdaReads(ev.b, xx, p, r) = {}
                  \/ /\ 0 <= kk /\ kk + 1 <= phi.size - 1
                     /\ LambdaReads(ev.b, xx, p, r) # {}
        /\ \A rd \in ev.reads : 0 <= rd[2] /\ rd[2] <= dyadic_grid_size(p, r) - 1

\* C10 witness: the third-order Taylor approximant has read the last node
C10_Witness ==
    InBody /\ ev.b = 12 /\ r = 15 /\ <<"phi", phi.size - 1>> \in ev.reads

\* the vector each local holds when the body of iteration r begins
IterationData(n) ==
    CASE n \in {"phi", "phi_copy"} -> dyadic_grid(p, 0, r)
      [] n \in {"phi_prime", "phi_prime_copy"} -> dyadic_grid(p, 1, r)
      [] n \in {"phi_dbl_prime", "phi_dbl_prime_copy"} -> dyadic_grid(p, 2, r)
      [] n \in {"phi_triple_prime", "phi_triple_prime_copy"} -> dyadic_grid(p, 3, r)
      [] n \in {"x", "x_copy"} -> [size |-> dyadic_grid_size(p, r), of |-> <<"abscissas", p, r>>]

\* C6: the comparisons of one iteration are independent: evaluating any scheme
\* leaves phi, phi_prime, x and phi_dense unchanged (a scheme that takes
\* ownership receives copies), so every scheme is evaluated on the data the
\* iteration began with, whichever schemes ran before it.
C6_SchemesLeaveDataUnchanged ==
    [][pc = "block" =>
          /\ phi' = phi /\ phi_prime' = phi_prime /\ x' = x /\ phi_dense' = phi_dense
          /\ phi' = dyadic_grid(p, 0, r) /\ phi_prime' = dyadic_grid(p, 1, r)
          /\ \A n \in DOMAIN ev'.given : ev'.given[n] = IterationData(n)]_vars

\* C6 witness: the septic Hermite spline, which takes four vectors by move, has
\* been built and evaluated
C6_Witness == pc = "report" /\ ev.b = 13 /\ "phi_copy" \in DOMAIN ev.given /\ phi.size > 0

\* the errors of the row just written, by block
RowErrors ==
    LET lines == LinesOf(fs)
        row == lines[Len(lines)]
    IN  [b \in 1..NumBlocks(p) |-> Field(row, b + 1).v]

\* the console lines of the current iteration: those after its "dx = ..." line
IterationLog ==
    LET start == CHOOSE k \in 1..Len(log) :
                    log[k].t = "dx" /\ \A j \in (k + 1)..Len(log) : log[j].t # "dx"
    IN  SubSeq(log, start + 1, Len(log))

\* C1: the name printed as "The best method" is the name of an evaluated scheme
\* whose recorded sup error is the lowest of the recorded sup errors of all the
\* schemes evaluated in that iteration.
C1_BestHasLowestError ==
    pc = "end" =>
        LET errs == RowErrors
        IN  /\ log[Len(log)] = Line("best", p, best)
            /\ \E b \in 1..NumBlocks(p) :
                  /\ MapName[b] = best
                  /\ \A c \in 1..NumBlocks(p) : errs[b] <= errs[c]

\* C1 witness: the last scheme alone has the lowest error and is printed
C1_Witness ==
    /\ pc = "end" /\ p = 15
    /\ best = "septic_hermite_spline"
    /\ \A c \in 1..12 : RowErrors[c] > RowErrors[13]

\* C8: the console log of an iteration contains exactly one "<error> is error
\* of <name>" line for each scheme evaluated in it, carrying the error written
\* for that scheme in the CSV row, also when two schemes have equal sup error.
C8_OneLinePerScheme ==
    pc = "end" =>
        LET errs == RowErrors
            out == IterationLog
        IN  \A b \in 1..NumBlocks(p) :
              /\ Cardinality({k \in 1..Len(out) :
                                out[k].t = "err" /\ out[k].of = MapName[b]}) = 1
              /\ \A k \in 1..Len(out) :
                    out[k].t = "err" /\ out[k].of = MapName[b] => out[k].v = errs[b]

\* the greatest of |phi_dense[i] - scheme(i*dx_dense)| over the indices of S
SupOver(S) ==
    LET d(i) == Diff(ev.b, ev.f, phi_dense, i, p)
    IN  IF S = {} THEN 0 ELSE CHOOSE v \in {d(i) : i \in S} : \A i \in S : d(i) <= v

\* the error recorded for the scheme just evaluated: the number written to fs
RecordedError == fs[Len(fs) - 1].v

\* C2 as stated: the error recorded for every scheme is the maximum of
\* |phi_dense[i] - scheme(i*dx_dense)| over every index i of phi_dense; it is
\* never negative and never below the difference at any reference point.
C2_SupOverAllPoints ==
    pc \in {"block", "report"} /\ ev.b >= 1 =>
        /\ fs[Len(fs) - 1] = Tok("num", Column[ev.b], RecordedError)
        /\ RecordedError \in DOMAIN m
        /\ RecordedError = SupOver(DenseSample(phi_dense.size))
        /\ RecordedError >= 0
        /\ \A i \in DenseSample(phi_dense.size) :
              RecordedError >= Diff(ev.b, ev.f, phi_dense, i, p)

\* C2 as amended: the same, over every index of phi_dense for every scheme but
\* matched_holder, and over every index but the last for matched_holder.
C2_SupOverEvaluatedPoints ==
    pc \in {"block", "report"} /\ ev.b >= 1 =>
        LET S == {i \in DenseSample(phi_dense.size) : ev.b = 1 => i < phi_dense.size - 1}
        IN  /\ fs[Len(fs) - 1] = Tok("num", Column[ev.b], RecordedError)
            /\ RecordedError \in DOMAIN m
            /\ RecordedError = SupOver(S)
            /\ RecordedError >= 0
            /\ \A i \in S : RecordedError >= Diff(ev.b, ev.f, phi_dense, i, p)

\* C2 witness: matched_holder is off the reference at the last point only
C2_Witness ==
    /\ pc = "block" /\ ev.b = 1
    /\ RecordedError = 0
    /\ Diff(1, ev.f, phi_dense, phi_dense.size - 1, p) > 0


\* the Taylor approximants: first, second and third order
Taylor == {9, 11, 12}

\* the node nearest to xx on the grid of spacing 2^-rr: k = floor(2^rr * xx)
\* when y-k < k+1-y, and k+1 otherwise
NearestNode(xx, rr) ==
    LET y == DyShiftLeft(rr, xx)
        k == DyFloor(y)
    IN  IF 2 * (y.m - k * Pow2(y.e)) < Pow2(y.e) THEN k ELSE k + 1

\* a = xx - node * 2^-rr, compared in units of 2^-rmax
IsOffset(a, xx, node, rr) ==
    a.m * Pow2(rmax - a.e) = xx.m * Pow2(rmax - xx.e) - node * Pow2(rmax - rr)

\* C11: each Taylor approximant (first, second and third order) expands about
\* a single sample node, the one nearest to x: at every abscissa inside the
\* support every term of the sum is read at the index of that node, and eps is
\* the signed offset of x from that node.
C11_TaylorSingleNode ==
    InBody /\ ev.b \in Taylor =>
        \A i \in ev.calls :
            LET xx == DyScale(i, dx_dense(p, phi_dense.size))
                node == NearestNode(xx, r)
            IN  ~OutsideSupport(xx, p) =>
                    /\ \A rd \in LambdaReads(ev.b, xx, p, r) : rd[2] = node
                    /\ IsOffset(TaylorEps(xx, r), xx, node, r)

====
